---------------------------- MODULE Spec2Model ----------------------------
(***************************************************************************)
(* A model of AutoMixEngine (src/js/automixEngine.js): the crossfade       *)
(* scheduler startAutoMix with its suspension on offline resampling, the   *)
(* beat aligner, the dry-run simulator, and the audio backend seen as the  *)
(* list of requests the engine has committed to it.                        *)
(*                                                                         *)
(* Units.  Times are integers in milliseconds (the source's seconds times  *)
(* 1000), tempi are in tenths of a BPM, gains in units of 0.0001.          *)
(*                                                                         *)
(* Absent values.  A JavaScript value that may be undefined/null is a      *)
(* sequence of length 0 (absent) or 1 (present): None and Some(x).         *)
(*                                                                         *)
(* Environment.  The audio backend (audioContext) and the animation        *)
(* library are injected collaborators: the model records every request     *)
(* the engine makes of them and lets none of them throw.  The playback     *)
(* clock (audioContext.currentTime) and the timer clock (setTimeout) run   *)
(* on one time base; a timer fires at or after its deadline.               *)
(***************************************************************************)
EXTENDS Integers, Sequences, FiniteSets, TLC

VARIABLES
    isMixing,      \* this.isMixing
    debugMode,     \* this.debugMode
    sourceNodeA,   \* this.sourceNodeA: index into sources, 0 = null
    sourceNodeB,   \* this.sourceNodeB
    gainNodeA,     \* this.gainNodeA: index into gains, 0 = null
    gainNodeB,     \* this.gainNodeB
    sources,       \* backend: every playback unit created, with its requests
    gains,         \* backend: every gain unit created, with its automation
    timers,        \* pending setTimeout callbacks
    animations,    \* every anime({...}) request made
    animeDefined,  \* typeof anime !== 'undefined'
    clock,         \* audioContext.currentTime
    awaiting,      \* startAutoMix calls suspended at the await of line 61
    nCalls,        \* startAutoMix calls made so far
    last,          \* the most recently completed startAutoMix call
    report,        \* what the most recent simulateMixSession call answered
    alignRet,      \* what the most recent direct aligner call answered
    curveRet,      \* what the most recent direct createSCurveFade call answered
    ready,         \* what the most recent testAutoMix call answered
    renderRet,     \* what the most recent direct resampleBufferForTempo call answered
    swState,       \* the cache worker: where it is in its life cycle
    cacheStorage,  \* the cache worker: each existing cache and the URLs it holds
    deleting,      \* the cache worker: caches.delete requests not yet settled
    fetches        \* the cache worker: the fetch events it was given

engineVars == <<isMixing, sourceNodeA, sourceNodeB, gainNodeA, gainNodeB>>
backendVars == <<sources, gains, timers, animations>>
workerVars == <<swState, cacheStorage, deleting, fetches>>
vars == <<isMixing, debugMode, sourceNodeA, sourceNodeB, gainNodeA, gainNodeB,
          sources, gains, timers, animations, animeDefined, clock, awaiting,
          nCalls, last, report, alignRet, curveRet, ready, renderRet, swState,
          cacheStorage, deleting, fetches>>

---------------------------------------------------------------------------
(* Bounds of the model *)

MaxCalls == 3
MaxClock == 300
TickStep == 100
MaxBeats == 2
MaxPoints == 5
MaxFetches == 2

(* Constants of the program *)

FADE_TIME == 15
CURVE_RESOLUTION == 512
BEAT_SKIP == 100
GAIN_FULL == 10000
GAIN_FLOOR == 1

(* Resolution of the model's cosine *)

COS_SCALE == 4096

---------------------------------------------------------------------------
(* Values *)

None == <<>>
Some(x) == <<x>>
IsSome(o) == Len(o) > 0
Get(o) == o[1]

Abs(x) == IF x < 0 THEN -x ELSE x

Buffer(ms) == [length |-> ms * 8, sampleRate |-> 8000, numberOfChannels |-> 2]

\* AudioBuffer.duration, in ms
Duration(buffer) == (buffer.length * 1000) \div buffer.sampleRate

Analysis(bpm, beats) == [bpm |-> bpm, beats |-> beats]

Track(ms, analysis, file) ==
    [buffer |-> Buffer(ms), analysis |-> analysis, file |-> file]

\* The playlist the playlist collaborator holds: startAutoMix is called with
\* a track of it and the track that follows (the first follows the last).
Playlist ==
    << Track(400, Some(Analysis(1200, Some(<<>>))), Some("e")),
       Track(400, Some(Analysis(1200, Some(<<150, 250, 350>>))), Some("a")),
       Track(400, Some(Analysis(1200, Some(<<0, 100, 300>>))), Some("f")),
       Track(500, Some(Analysis(1280, Some(<<50, 150, 450>>))), Some("b")),
       Track(400, Some(Analysis(1280, None)), None),
       Track(400, None, Some("c")) >>

Following(i) == (i % Len(Playlist)) + 1

\* Playback positions of the outgoing track, and configured crossfade durations.
Positions == {100, 300}
CrossfadeDurations == {200}

\* Beat lists and analyses for the aligner taken alone.
BeatTimes == {0, 50, 100, 150, 250}
MixPoints == {100, 200, 300}

BeatLists == UNION { [1..n -> BeatTimes] : n \in 0..MaxBeats }

WideAnalyses ==
    {None} \cup { Some(Analysis(1200, b)) :
                    b \in {None} \cup { Some(l) : l \in BeatLists } }

\* Tracks for the simulator taken alone; a track handle may itself be null.
WideTracks ==
    {None} \cup { Some(Track(400, a, Some("w"))) : a \in WideAnalyses }
WideCrossfadeDurations == {100, 200, 300}

---------------------------------------------------------------------------
(* BeatAligner: calculateBeatAlignedStartOffset *)

\* Faulty variant of Closer: an equally near later beat replaces the earlier.
Closer_OrEqual(curr, prev, mixPoint) == Abs(curr - mixPoint) <= Abs(prev - mixPoint)

\* line 158: the reducer keeps curr only when it is strictly nearer
Closer(curr, prev, mixPoint) == Abs(curr - mixPoint) < Abs(prev - mixPoint)

RECURSIVE ReduceClosest(_, _, _, _)
ReduceClosest(beats, i, prev, mixPoint) ==
    IF i > Len(beats) THEN prev
    ELSE ReduceClosest(beats, i + 1,
                       IF Closer(beats[i], prev, mixPoint) THEN beats[i] ELSE prev,
                       mixPoint)

\* lines 157-159: Array.prototype.reduce without an initial value; it throws
\* a TypeError on an empty array, which the callers see as ReduceThrows.
ReduceThrows(beats) == Len(beats) = 0
ClosestBeat(beats, mixPoint) == ReduceClosest(beats, 2, beats[1], mixPoint)

\* Faulty variant of IsUsableBeat: a beat at exactly 0.1 s is taken.
IsUsableBeat_Inclusive(beat) == beat >= BEAT_SKIP

\* line 162: beat => beat > 0.1
IsUsableBeat(beat) == beat > BEAT_SKIP

RECURSIVE FindFrom(_, _)
FindFrom(beats, i) ==
    IF i > Len(beats) THEN None
    ELSE IF IsUsableBeat(beats[i]) THEN Some(beats[i])
    ELSE FindFrom(beats, i + 1)

\* Array.prototype.find: the first element satisfying the test, or undefined
Find(beats) == FindFrom(beats, 1)

\* line 162: find(...) || incomingBeats[0] || 0.  A found beat is > 0.1 and so
\* truthy; incomingBeats[0] is undefined on an empty list and falsy when 0.
FirstIncomingBeat(beats) ==
    IF IsSome(Find(beats)) THEN Get(Find(beats))
    ELSE IF Len(beats) > 0 /\ beats[1] # 0 THEN beats[1]
    ELSE 0

\* line 148: the guard of the fallback to offset 0
BeatDataMissing(analysisA, analysisB) ==
    \/ ~IsSome(analysisA)
    \/ ~IsSome(Get(analysisA).beats)
    \/ ~IsSome(analysisB)
    \/ ~IsSome(Get(analysisB).beats)

\* lines 147-167.  threw: a TypeError escaped; value: the returned offset;
\* anchor: closestBeatTime, the local of line 157 (absent on the fallback).
calculateBeatAlignedStartOffset(analysisA, analysisB, mixPoint) ==
    IF BeatDataMissing(analysisA, analysisB)
    THEN [threw |-> FALSE, value |-> 0, anchor |-> None]
    ELSE IF ReduceThrows(Get(Get(analysisA).beats))
    THEN [threw |-> TRUE, value |-> 0, anchor |-> None]
    ELSE [threw |-> FALSE,
          value |-> FirstIncomingBeat(Get(Get(analysisB).beats)),
          anchor |-> Some(ClosestBeat(Get(Get(analysisA).beats), mixPoint))]

---------------------------------------------------------------------------
(* TempoResampler *)

\* Faulty variant of NeedsResample: both ends of the window are included.
NeedsResample_Inclusive(bpmA, bpmB) ==
    /\ 100 * Abs(bpmA - bpmB) >= 3 * bpmA
    /\ 100 * Abs(bpmA - bpmB) <= 25 * bpmA

\* lines 58-59: bpmDifference > bpm*0.03 && bpmDifference < bpm*0.25
NeedsResample(bpmA, bpmB) ==
    /\ 100 * Abs(bpmA - bpmB) > 3 * bpmA
    /\ 100 * Abs(bpmA - bpmB) < 25 * bpmA

CeilDiv(a, b) == (a + b - 1) \div b

\* Faulty variant of TempoRatio: the quotient is taken the other way round.
TempoRatio_Inverted(bpmA, bpmB) == [num |-> bpmB, den |-> bpmA]

\* line 173: tempoRatio = analysisA.bpm / analysisB.bpm, as a fraction
TempoRatio(bpmA, bpmB) == [num |-> bpmA, den |-> bpmB]

\* lines 174-186: the offline context that is built and the rate its source
\* plays at: Math.ceil((duration / tempoRatio) * sampleRate) frames, with
\* the channel count and sample rate of the source buffer.
OfflineRender(sourceBuffer, bpmA, bpmB) ==
    LET tempoRatio == TempoRatio(bpmA, bpmB)
    IN  [numberOfChannels |-> sourceBuffer.numberOfChannels,
         length |-> CeilDiv(sourceBuffer.length * tempoRatio.den, tempoRatio.num),
         sampleRate |-> sourceBuffer.sampleRate,
         playbackRate |-> tempoRatio]

\* lines 172-191: the buffer offlineCtx.startRendering() resolves to
resampleBufferForTempo(sourceBuffer, bpmA, bpmB) ==
    [length |-> OfflineRender(sourceBuffer, bpmA, bpmB).length,
     sampleRate |-> OfflineRender(sourceBuffer, bpmA, bpmB).sampleRate,
     numberOfChannels |-> OfflineRender(sourceBuffer, bpmA, bpmB).numberOfChannels]

---------------------------------------------------------------------------
(* CrossfadeScheduler: startAutoMix *)

\* line 49: mixPoint = currentTrack.buffer.duration - crossfadeDuration
MixPoint(track, cf) == Duration(track.buffer) - cf

\* Faulty variant of GuardRejects: the guard lets every call through.
GuardNever(flag) == FALSE

\* line 40: the single-session guard
GuardRejects(flag) == flag

\* line 58: analysisA.bpm / analysisB.bpm read a property of undefined
BpmReadThrows(cur, next) == ~IsSome(cur.analysis) \/ ~IsSome(next.analysis)

\* Faulty variant of MixStartTime: the playback position is left out.
MixStartTime_FromTrackStart(now, mixPoint, pos) == now + mixPoint

\* line 69
MixStartTime(now, mixPoint, pos) == now + (mixPoint - pos)

\* Faulty variant of InThePast: a start time equal to now is accepted.
InThePast_Strict(mixStartTime, now) == mixStartTime < now

\* line 71
InThePast(mixStartTime, now) == mixStartTime <= now

\* Faulty variant of TimerDelay: the crossfade duration is left out.
TimerDelay_NoCrossfade(mixStartTime, now, cf) == mixStartTime - now

\* line 120: the delay handed to setTimeout, in ms
TimerDelay(mixStartTime, now, cf) == mixStartTime - now + cf

\* lines 115-116: currentTrack.file.name / nextTrack.file.name, read only
\* when the debug report is written
LogThrows(cur, next) == ~IsSome(cur.file) \/ ~IsSome(next.file)

\* line 135: Math.cos(scaledX * Math.PI) for scaledX = k/n, in units of
\* 1/COS_SCALE.  The cosine is taken by the rational form
\* (1 - 4t^2)/(1 + t^2) on [0, 1/2] and by its mirror image on [1/2, 1]:
\* exact at 0, 1/2 and 1, falling in between, within 0.002 of the cosine.
CosPi(k, n) ==
    IF 2 * k <= n
    THEN (COS_SCALE * (n * n - 4 * k * k)) \div (n * n + k * k)
    ELSE 0 - ((COS_SCALE * (n * n - 4 * (n - k) * (n - k)))
                  \div (n * n + (n - k) * (n - k)))

\* lines 129-142: sample i (from 0) is
\*   startValue + (endValue - startValue) * 0.5 * (1 - cos(scaledX * PI)),
\* with scaledX = i/(numPoints-1) when endValue > startValue and
\* 1 - i/(numPoints-1) otherwise.  The sequence holds sample i at i + 1.
createSCurveFade(startValue, endValue, numPoints) ==
    [j \in 1..numPoints |->
        LET i == j - 1
            n == numPoints - 1
            isFadeIn == endValue > startValue
            k == IF isFadeIn THEN i ELSE n - i
        IN  startValue +
            (((endValue - startValue) * (COS_SCALE - CosPi(k, n)))
                 \div (2 * COS_SCALE))]

\* line 90: createSCurveFade(1, 0.0001, this.CURVE_RESOLUTION, 'out')
FadeOutCurve == createSCurveFade(GAIN_FULL, GAIN_FLOOR, CURVE_RESOLUTION)

\* line 91: createSCurveFade(0.0001, 1, this.CURVE_RESOLUTION, 'in')
FadeInCurve == createSCurveFade(GAIN_FLOOR, GAIN_FULL, CURVE_RESOLUTION)

SetValueAtTime(value, startTime) ==
    [op |-> "setValueAtTime", value |-> value, startTime |-> startTime,
     extent |-> 0, values |-> None]
SetValueCurveAtTime(curve, startTime, duration) ==
    [op |-> "setValueCurveAtTime", value |-> 0, startTime |-> startTime,
     extent |-> duration, values |-> Some(curve)]
SetTargetAtTime(target, startTime, timeConstant) ==
    [op |-> "setTargetAtTime", value |-> target, startTime |-> startTime,
     extent |-> timeConstant, values |-> None]

\* lines 93-94 and 105: the automation committed to gainNodeA
GainAutomationA(mixStartTime, cf) ==
    << SetValueAtTime(GAIN_FULL, mixStartTime),
       SetValueCurveAtTime(FadeOutCurve, mixStartTime, cf),
       SetTargetAtTime(0, mixStartTime + cf - FADE_TIME, FADE_TIME) >>

\* lines 96-97 and 102: the automation committed to gainNodeB
GainAutomationB(mixStartTime, cf) ==
    << SetValueAtTime(GAIN_FLOOR, mixStartTime),
       SetValueCurveAtTime(FadeInCurve, mixStartTime, cf),
       SetTargetAtTime(GAIN_FULL, mixStartTime, FADE_TIME) >>

\* lines 78, 83, 86, 106: the outgoing playback unit; it is given a stop time
\* and no start
SourceA(buffer, gain, mixStartTime, cf) ==
    [buffer |-> buffer, connectedTo |-> gain, startCalls |-> <<>>,
     stopCalls |-> <<mixStartTime + cf>>]

\* lines 79, 84, 87, 100: the incoming playback unit
SourceB(buffer, gain, mixStartTime, offset) ==
    [buffer |-> buffer, connectedTo |-> gain,
     startCalls |-> <<[when |-> mixStartTime, offset |-> offset]>>,
     stopCalls |-> <<>>]

\* Faulty variant of AllocateSources: when the engine holds the units of an
\* earlier session it schedules those again.
AllocateSources_Reusing(existing, unitA, unitB) ==
    IF Len(existing) < 2
    THEN existing \o <<unitA, unitB>>
    ELSE [existing EXCEPT
             ![Len(existing) - 1] =
                 [unitA EXCEPT !.startCalls = existing[Len(existing) - 1].startCalls \o @,
                               !.stopCalls = existing[Len(existing) - 1].stopCalls \o @],
             ![Len(existing)] =
                 [unitB EXCEPT !.startCalls = existing[Len(existing)].startCalls \o @,
                               !.stopCalls = existing[Len(existing)].stopCalls \o @]]

\* lines 78-79: createBufferSource() is called twice, and the backend
\* answers each call with a unit it did not hold before
AllocateSources(existing, unitA, unitB) == existing \o <<unitA, unitB>>

\* Faulty variant of syncCrossfadeAnimation: the animation is timed from the
\* moment of the call.
syncCrossfadeAnimation_FromNow(startTime, duration, now) ==
    [startTime |-> now, delay |-> 0, duration |-> duration]

\* lines 196-215: the request made of the animation library
syncCrossfadeAnimation(startTime, duration, now) ==
    [startTime |-> startTime,
     delay |-> IF startTime - now > 0 THEN startTime - now ELSE 0,
     duration |-> duration]

\* Faulty variant of Suspends: the rendering is started and not awaited.
Suspends_Never(needsResampling) == FALSE

\* lines 59-61: inside the if, the call awaits the rendering
Suspends(needsResampling) == needsResampling

\* The locals a call holds while it is suspended at line 61.  calledAt is
\* the playback clock at the moment of the call, the moment its
\* currentPosition argument was true of the outgoing track; the code keeps
\* no such value.
Closure(cur, next, pos, cf) ==
    [cur |-> cur, next |-> next, pos |-> pos, cf |-> cf,
     mixPoint |-> MixPoint(cur, cf), calledAt |-> clock]

\* How a call ended: ret names the outcome and the line that produced it.
Completed(c, ret, render, now, offset) ==
    Some([cur |-> c.cur, next |-> c.next, pos |-> c.pos, cf |-> c.cf,
          ret |-> ret, render |-> render, now |-> now, offset |-> offset])

\* lines 64-122, run without interruption: from the beat alignment to the
\* return.  flag is this.isMixing as the call finds it at line 64.
Continue(c, bufferB, render, flag) ==
    LET al == calculateBeatAlignedStartOffset(c.cur.analysis, c.next.analysis,
                                              c.mixPoint)
        now == clock
        mixStartTime == MixStartTime(now, c.mixPoint, c.pos)
        gA == Len(gains) + 1
        gB == Len(gains) + 2
        sA == Len(sources) + 1
        sB == Len(sources) + 2
    IN  IF al.threw
        THEN /\ isMixing' = flag
             /\ last' = Completed(c, "throw@157", render, None, None)
             /\ UNCHANGED <<sourceNodeA, sourceNodeB, gainNodeA, gainNodeB,
                            sources, gains, timers, animations>>
        ELSE IF InThePast(mixStartTime, now)
        THEN /\ isMixing' = FALSE
             /\ last' = Completed(c, "false@74", render, Some(now), Some(al.value))
             /\ UNCHANGED <<sourceNodeA, sourceNodeB, gainNodeA, gainNodeB,
                            sources, gains, timers, animations>>
        ELSE /\ sourceNodeA' = sA
             /\ sourceNodeB' = sB
             /\ gainNodeA' = gA
             /\ gainNodeB' = gB
             /\ sources' = AllocateSources(sources,
                                SourceA(c.cur.buffer, gA, mixStartTime, c.cf),
                                SourceB(bufferB, gB, mixStartTime, al.value))
             /\ gains' = gains \o
                    << [connectedTo |-> "destination",
                        automation |-> GainAutomationA(mixStartTime, c.cf)],
                       [connectedTo |-> "destination",
                        automation |-> GainAutomationB(mixStartTime, c.cf)] >>
             /\ animations' =
                    IF animeDefined
                    THEN Append(animations, syncCrossfadeAnimation(mixStartTime, c.cf, now))
                    ELSE animations
             /\ isMixing' = flag
             /\ IF debugMode /\ LogThrows(c.cur, c.next)
                THEN /\ timers' = timers
                     /\ last' = Completed(c, "throw@115", render, Some(now),
                                          Some(al.value))
                ELSE /\ timers' = Append(timers,
                                         now + TimerDelay(mixStartTime, now, c.cf))
                     /\ last' = Completed(c, "true@122", render, Some(now),
                                          Some(al.value))

\* Faulty variant of FlagOnEntry: the flag is not set before the await.
FlagOnEntry_NotSet == FALSE

\* line 44: this.isMixing = true, before anything else is done
FlagOnEntry == TRUE

\* lines 39-62: a call of startAutoMix, up to its return or to the await
startAutoMix(cur, next, pos, cf) ==
    /\ nCalls < MaxCalls
    /\ nCalls' = nCalls + 1
    /\ UNCHANGED <<debugMode, animeDefined, clock, report, alignRet, curveRet, ready, renderRet, workerVars>>
    /\ LET c == Closure(cur, next, pos, cf)
       IN  IF GuardRejects(isMixing)
           THEN /\ last' = Completed(c, "false@42", "none", None, None)
                /\ UNCHANGED <<engineVars, backendVars, awaiting>>
           ELSE IF BpmReadThrows(cur, next)
           THEN /\ isMixing' = FlagOnEntry
                /\ last' = Completed(c, "throw@58", "none", None, None)
                /\ UNCHANGED <<sourceNodeA, sourceNodeB, gainNodeA, gainNodeB,
                               backendVars, awaiting>>
           ELSE IF Suspends(NeedsResample(Get(cur.analysis).bpm, Get(next.analysis).bpm))
           THEN /\ isMixing' = FlagOnEntry
                /\ awaiting' = awaiting \cup {c}
                /\ UNCHANGED <<sourceNodeA, sourceNodeB, gainNodeA, gainNodeB,
                               backendVars, last>>
           ELSE /\ Continue(c, next.buffer, "none", FlagOnEntry)
                /\ UNCHANGED awaiting

\* line 61: the offline rendering completes and the call resumes
RenderResolve(c) ==
    /\ c \in awaiting
    /\ awaiting' = awaiting \ {c}
    /\ Continue(c,
                resampleBufferForTempo(c.next.buffer, Get(c.cur.analysis).bpm,
                                       Get(c.next.analysis).bpm),
                "ok", isMixing)
    /\ UNCHANGED <<debugMode, animeDefined, clock, nCalls, report, alignRet, curveRet, ready, renderRet, workerVars>>

\* line 61: the offline context cannot be built, or its rendering is
\* rejected; the await rethrows and nothing in startAutoMix catches it
RenderReject(c) ==
    /\ c \in awaiting
    /\ awaiting' = awaiting \ {c}
    /\ last' = Completed(c, "throw@61", "failed", None, None)
    /\ UNCHANGED <<engineVars, backendVars, debugMode, animeDefined, clock,
                   nCalls, report, alignRet, curveRet, ready, renderRet, workerVars>>

\* Faulty variant of TimerCallbackFlag: the callback leaves the flag set.
TimerCallbackFlag_Stuck == TRUE

\* line 120: what the deferred callback assigns to this.isMixing
TimerCallbackFlag == FALSE

\* line 120: the deferred callback () => { this.isMixing = false; }
TimerFire(i) ==
    /\ i \in 1..Len(timers)
    /\ timers[i] <= clock
    /\ timers' = [j \in 1..(Len(timers) - 1) |->
                     IF j < i THEN timers[j] ELSE timers[j + 1]]
    /\ isMixing' = TimerCallbackFlag
    /\ UNCHANGED <<sourceNodeA, sourceNodeB, gainNodeA, gainNodeB, sources,
                   gains, animations, debugMode, animeDefined, clock, awaiting,
                   nCalls, last, report, alignRet, curveRet, ready, renderRet, workerVars>>

\* Time passes on the playback clock and the timer clock alike.
Tick ==
    /\ \/ clock < MaxClock
       \/ \E i \in 1..Len(timers) : timers[i] > clock
    /\ clock' = clock + TickStep
    /\ UNCHANGED <<engineVars, backendVars, debugMode, animeDefined, awaiting,
                   nCalls, last, report, alignRet, curveRet, ready, renderRet, workerVars>>

\* lines 28-31
setDebugMode(enabled) ==
    /\ debugMode' = enabled
    /\ UNCHANGED <<engineVars, backendVars, animeDefined, clock, awaiting,
                   nCalls, last, report, alignRet, curveRet, ready, renderRet, workerVars>>

\* The cache worker as the browser holds it before its install event, with
\* no cache in the origin's storage.
InitWorker ==
    /\ swState = "parsed"
    /\ cacheStorage = <<>>
    /\ deleting = {}
    /\ fetches = <<>>

\* lines 11-22: the engine as constructed
InitEngine ==
    /\ isMixing = FALSE
    /\ debugMode = FALSE
    /\ sourceNodeA = 0
    /\ sourceNodeB = 0
    /\ gainNodeA = 0
    /\ gainNodeB = 0
    /\ sources = <<>>
    /\ gains = <<>>
    /\ timers = <<>>
    /\ animations = <<>>
    /\ clock = 0
    /\ awaiting = {}
    /\ nCalls = 0
    /\ last = None

Init ==
    /\ InitEngine
    /\ ready = None
    /\ renderRet = None
    /\ InitWorker
    /\ animeDefined \in BOOLEAN
    /\ report = None
    /\ alignRet = None
    /\ curveRet = None

Call == \E i \in 1..Len(Playlist), pos \in Positions, cf \in CrossfadeDurations :
            startAutoMix(Playlist[i], Playlist[Following(i)], pos, cf)
Resolve == \E c \in awaiting : RenderResolve(c)
Reject == \E c \in awaiting : RenderReject(c)
Fire == \E i \in 1..Len(timers) : TimerFire(i)
Debug == \E enabled \in BOOLEAN : setDebugMode(enabled)

Next == Call \/ Resolve \/ Reject \/ Fire \/ Tick \/ Debug

Spec == Init /\ [][Next]_vars

\* Time passes, and the event loop runs a timer that is due.
FairSpec == Spec /\ WF_vars(Tick) /\ WF_vars(Fire)

---------------------------------------------------------------------------
(* The aligner called directly *)

\* The arguments of a call that is about to be made.
AlignCall(analysisA, analysisB, mixPoint) ==
    [analysisA |-> analysisA, analysisB |-> analysisB, mixPoint |-> mixPoint,
     out |-> None]

InitAlign ==
    /\ InitEngine
    /\ ready = None
    /\ renderRet = None
    /\ InitWorker
    /\ animeDefined = TRUE
    /\ report = None
    /\ curveRet = None
    /\ alignRet \in { Some(AlignCall(a, b, m)) :
                         a \in WideAnalyses, b \in WideAnalyses, m \in MixPoints }

ApplyAlign ==
    /\ IsSome(alignRet)
    /\ ~IsSome(Get(alignRet).out)
    /\ alignRet' = Some([Get(alignRet) EXCEPT !.out =
                         Some(calculateBeatAlignedStartOffset(
                                  Get(alignRet).analysisA, Get(alignRet).analysisB,
                                  Get(alignRet).mixPoint))])
    /\ UNCHANGED <<engineVars, backendVars, debugMode, animeDefined, clock,
                   awaiting, nCalls, last, report, curveRet, ready, renderRet, workerVars>>

NextAlign == ApplyAlign

SpecAlign == InitAlign /\ [][NextAlign]_vars

---------------------------------------------------------------------------
(* Diagnostics: simulateMixSession *)

\* lines 258: analysisA.beats.reduce(...), guarded by if (analysisA.beats)
ReportOutgoingBeat(beats, mixPoint) ==
    IF IsSome(beats) THEN Some(ClosestBeat(Get(beats), mixPoint)) ELSE None

\* line 259: find(b => b > 0.1) || beats[0], guarded by if (analysisB.beats);
\* undefined when the list is empty
ReportIncomingBeat(beats) ==
    IF ~IsSome(beats) THEN None
    ELSE IF IsSome(Find(Get(beats))) THEN Find(Get(beats))
    ELSE IF Len(Get(beats)) > 0 THEN Some(Get(beats)[1])
    ELSE None

\* Faulty variant of ReportResamplingNeeded: the simulator's copy of the
\* window opens at 10%.
ReportResamplingNeeded_TenPercent(bpmA, bpmB) ==
    /\ 100 * Abs(bpmA - bpmB) > 10 * bpmA
    /\ 100 * Abs(bpmA - bpmB) < 25 * bpmA

\* lines 249-250: the simulator's own copy of the resampling condition
ReportResamplingNeeded(bpmA, bpmB) ==
    /\ 100 * Abs(bpmA - bpmB) > 3 * bpmA
    /\ 100 * Abs(bpmA - bpmB) < 25 * bpmA

\* lines 220-266.  threw: the call rejected with a TypeError; error: the
\* { error: ... } answer of line 222; anchor: closestBeatTime of the aligner
\* call of line 256.
simulateMixSession(cur, next, cf) ==
    LET blank == [threw |-> FALSE, error |-> FALSE, mixPoint |-> None,
                  crossfadeDuration |-> None, trackA_BPM |-> None,
                  trackB_BPM |-> None, resamplingNeeded |-> FALSE,
                  resampledBPM |-> None, outgoingBeat |-> None,
                  incomingBeat |-> None, finalOffset |-> None, anchor |-> None]
    IN  IF \/ ~IsSome(cur)
           \/ ~IsSome(next)
           \/ ~IsSome(Get(cur).analysis)
           \/ ~IsSome(Get(next).analysis)
        THEN [blank EXCEPT !.error = TRUE]
        ELSE LET analysisA == Get(Get(cur).analysis)
                 analysisB == Get(Get(next).analysis)
                 mixPoint == MixPoint(Get(cur), cf)
                 needed == ReportResamplingNeeded(analysisA.bpm, analysisB.bpm)
                 al == calculateBeatAlignedStartOffset(
                           Get(cur).analysis, Get(next).analysis, mixPoint)
             IN  IF \/ al.threw
                    \/ IsSome(analysisA.beats) /\ ReduceThrows(Get(analysisA.beats))
                 THEN [blank EXCEPT !.threw = TRUE]
                 ELSE [threw |-> FALSE, error |-> FALSE,
                       mixPoint |-> Some(mixPoint),
                       crossfadeDuration |-> Some(cf),
                       trackA_BPM |-> Some(analysisA.bpm),
                       trackB_BPM |-> Some(analysisB.bpm),
                       resamplingNeeded |-> needed,
                       resampledBPM |-> IF needed THEN Some(analysisA.bpm) ELSE None,
                       outgoingBeat |-> ReportOutgoingBeat(analysisA.beats, mixPoint),
                       incomingBeat |-> ReportIncomingBeat(analysisB.beats),
                       finalOffset |-> Some(al.value),
                       anchor |-> al.anchor]

\* Faulty variant of DiagnosticsFlag: the diagnostic call arms the engine as
\* line 44 does.
DiagnosticsFlag_Arming(flag) == TRUE

\* lines 220-276: this.isMixing as simulateMixSession and testAutoMix leave
\* it; neither assigns it
DiagnosticsFlag(flag) == flag

\* The arguments of a call that is about to be made.
SimCall(cur, next, cf) == [cur |-> cur, next |-> next, cf |-> cf, out |-> None]

InitSim ==
    /\ InitEngine
    /\ ready = None
    /\ renderRet = None
    /\ InitWorker
    /\ animeDefined = TRUE
    /\ alignRet = None
    /\ curveRet = None
    /\ report \in { Some(SimCall(cur, next, cf)) :
                       cur \in WideTracks, next \in WideTracks,
                       cf \in WideCrossfadeDurations }

SimulateMixSession ==
    /\ IsSome(report)
    /\ ~IsSome(Get(report).out)
    /\ report' = Some([Get(report) EXCEPT !.out =
                       Some(simulateMixSession(Get(report).cur, Get(report).next,
                                               Get(report).cf))])
    /\ isMixing' = DiagnosticsFlag(isMixing)
    /\ UNCHANGED <<sourceNodeA, sourceNodeB, gainNodeA, gainNodeB, backendVars,
                   debugMode, animeDefined, clock, awaiting, nCalls, last,
                   alignRet, curveRet, ready, renderRet, workerVars>>

\* The states an AudioContext reports.
AudioContextStates == {"suspended", "running", "closed"}

\* lines 271-276: the answer is built from this.audioContext and
\* this.playlistManager, both set by the constructor
testAutoMix(state) ==
    /\ ready' = Some([isReady |-> TRUE, audioContextState |-> state])
    /\ isMixing' = DiagnosticsFlag(isMixing)
    /\ UNCHANGED <<sourceNodeA, sourceNodeB, gainNodeA, gainNodeB, backendVars,
                   debugMode, animeDefined, clock, awaiting, nCalls, last,
                   report, alignRet, curveRet, renderRet, workerVars>>

Test == \E state \in AudioContextStates : testAutoMix(state)

NextSim == SimulateMixSession

SpecSim == InitSim /\ [][NextSim]_vars

---------------------------------------------------------------------------
(* The diagnostics and the scheduler on the same pair of tracks *)

\* A pair of adjacent tracks of the playlist is handed to the simulator.
InitDryRun ==
    /\ InitEngine
    /\ ready = None
    /\ renderRet = None
    /\ InitWorker
    /\ animeDefined \in BOOLEAN
    /\ alignRet = None
    /\ curveRet = None
    /\ report \in { Some(SimCall(Some(Playlist[i]), Some(Playlist[Following(i)]), cf)) :
                       i \in 1..Len(Playlist), cf \in CrossfadeDurations }

\* startAutoMix is called for the pair the simulator was handed.
DryRunCall ==
    \E pos \in Positions :
        startAutoMix(Get(Get(report).cur), Get(Get(report).next), pos,
                     Get(report).cf)

NextDryRun ==
    SimulateMixSession \/ Test \/ DryRunCall \/ Resolve \/ Reject \/ Fire \/ Tick

SpecDryRun == InitDryRun /\ [][NextDryRun]_vars

---------------------------------------------------------------------------
(* startAutoMix over a range of tempi *)

\* Tempi (tenths of a BPM) on, next to and away from the two ends of the
\* resampling window of 1000 and of 1200.
Tempi == {750, 970, 1000, 1030, 1031, 1200, 1235, 1236, 1237, 1249, 1250,
          1280, 1500, 1550}

TempoTrack(bpm) == Track(400, Some(Analysis(bpm, Some(<<0, 100, 300>>))), Some("t"))

\* The first call made of the engine, for a pair of tracks of any two tempi.
TempoCall ==
    /\ nCalls = 0
    /\ \E bpmA \in Tempi, bpmB \in Tempi, pos \in Positions,
          cf \in CrossfadeDurations :
            startAutoMix(TempoTrack(bpmA), TempoTrack(bpmB), pos, cf)

NextTempo == TempoCall \/ Resolve \/ Reject

SpecTempo == Init /\ [][NextTempo]_vars

---------------------------------------------------------------------------
(* The resampler called directly *)

\* Source buffers of several lengths, sample rates and channel counts.
SourceBuffers ==
    { [length |-> 3200, sampleRate |-> 8000, numberOfChannels |-> 2],
      [length |-> 4001, sampleRate |-> 8000, numberOfChannels |-> 1],
      [length |-> 4410, sampleRate |-> 11025, numberOfChannels |-> 2],
      [length |-> 1, sampleRate |-> 8000, numberOfChannels |-> 1] }

\* The arguments of a call that is about to be made.
RenderCall(sourceBuffer, bpmA, bpmB) ==
    [sourceBuffer |-> sourceBuffer, bpmA |-> bpmA, bpmB |-> bpmB,
     context |-> None, out |-> None]

InitResample ==
    /\ InitEngine
    /\ InitWorker
    /\ animeDefined = TRUE
    /\ report = None
    /\ alignRet = None
    /\ curveRet = None
    /\ ready = None
    /\ renderRet \in { Some(RenderCall(b, bpmA, bpmB)) :
                          b \in SourceBuffers, bpmA \in Tempi, bpmB \in Tempi }

ResampleBufferForTempo ==
    /\ IsSome(renderRet)
    /\ ~IsSome(Get(renderRet).out)
    /\ renderRet' = Some([Get(renderRet) EXCEPT
                             !.context = Some(OfflineRender(Get(renderRet).sourceBuffer,
                                                            Get(renderRet).bpmA,
                                                            Get(renderRet).bpmB)),
                             !.out = Some(resampleBufferForTempo(
                                              Get(renderRet).sourceBuffer,
                                              Get(renderRet).bpmA,
                                              Get(renderRet).bpmB))])
    /\ UNCHANGED <<engineVars, backendVars, debugMode, animeDefined, clock,
                   awaiting, nCalls, last, report, alignRet, curveRet, ready,
                   workerVars>>

NextResample == ResampleBufferForTempo

SpecResample == InitResample /\ [][NextResample]_vars

---------------------------------------------------------------------------
(* The curve generator called directly *)

GainValues == {GAIN_FLOOR, 2500, 5000, GAIN_FULL}

\* Curve lengths: the short ones, and the one startAutoMix asks for.
PointCounts == (2..MaxPoints) \cup {CURVE_RESOLUTION}

\* The arguments of a call that is about to be made.
CurveCall(startValue, endValue, numPoints) ==
    [startValue |-> startValue, endValue |-> endValue, numPoints |-> numPoints,
     out |-> None]

InitCurve ==
    /\ InitEngine
    /\ ready = None
    /\ renderRet = None
    /\ InitWorker
    /\ animeDefined = TRUE
    /\ report = None
    /\ alignRet = None
    /\ curveRet \in { Some(CurveCall(s, e, n)) :
                         s \in GainValues, e \in GainValues, n \in PointCounts }

CreateSCurveFade ==
    /\ IsSome(curveRet)
    /\ ~IsSome(Get(curveRet).out)
    /\ curveRet' = Some([Get(curveRet) EXCEPT !.out =
                         Some(createSCurveFade(Get(curveRet).startValue,
                                               Get(curveRet).endValue,
                                               Get(curveRet).numPoints))])
    /\ UNCHANGED <<engineVars, backendVars, debugMode, animeDefined, clock,
                   awaiting, nCalls, last, report, alignRet, ready, renderRet, workerVars>>

NextCurve == CreateSCurveFade

SpecCurve == InitCurve /\ [][NextCurve]_vars

---------------------------------------------------------------------------
(* The cache worker (src/unnamed/part_001)                                 *)
(*                                                                         *)
(* cacheStorage is the origin's CacheStorage: a function from the names of *)
(* the caches that exist to the set of request URLs each one answers.      *)
(* swState is the worker's place in its life cycle; deleting holds the     *)
(* names whose caches.delete() has been requested and has not completed.   *)

\* line 4
CACHE_NAME == "automix-v1.0.0"

\* lines 5-15
urlsToCache ==
    {"/", "/index.html", "/css/style.css", "/js/main.js",
     "/js/playlistManager.js", "/js/automixEngine.js", "/js/ui.js",
     "https://cdnjs.cloudflare.com/ajax/libs/animejs/3.2.1/anime.min.js",
     "https://fonts.googleapis.com/css2?family=Inter:wght@300;400;500;600;700&display=swap"}

\* Names under which the origin may hold a cache when the worker arrives:
\* the worker's own, that of an earlier version, and one of another owner.
CacheNames == {CACHE_NAME, "automix-v0.9.0", "user-data"}

\* What a cache found in storage may answer.
CacheContents == {{}, {"/index.html"}, {"/index.html", "/js/old.js"}}

\* CacheStorage.open(name): the cache of that name, created empty if absent
CachesOpen(storage, cacheName) ==
    IF cacheName \in DOMAIN storage
    THEN storage
    ELSE [n \in DOMAIN storage \cup {cacheName} |->
             IF n = cacheName THEN {} ELSE storage[n]]

\* CacheStorage.delete(name)
CachesDelete(storage, cacheName) ==
    [n \in DOMAIN storage \ {cacheName} |-> storage[n]]

\* lines 18-31: the install handler.  cache.addAll() stores every URL or,
\* when one of them cannot be fetched, none; the failure is caught and
\* logged, and the installation succeeds either way.
Install(addAllSucceeds) ==
    /\ swState = "parsed"
    /\ swState' = "installed"
    /\ LET opened == CachesOpen(cacheStorage, CACHE_NAME)
       IN  cacheStorage' =
               IF addAllSucceeds
               THEN [opened EXCEPT ![CACHE_NAME] = @ \cup urlsToCache]
               ELSE opened
    /\ UNCHANGED <<deleting, fetches, engineVars, backendVars, debugMode, animeDefined,
                   clock, awaiting, nCalls, last, report, alignRet, curveRet,
                   ready, renderRet>>

\* Faulty variant of IsOldCache: every cache found is taken for an old one.
IsOldCache_All(cacheName) == TRUE

\* line 41: cacheName !== CACHE_NAME
IsOldCache(cacheName) == cacheName # CACHE_NAME

\* lines 34-45: the activate handler, up to the deletions it requests.
\* caches.keys() answers with the names present, and caches.delete() is
\* called on each one that is not CACHE_NAME.
ActivateBegin ==
    /\ swState = "installed"
    /\ swState' = "activating"
    /\ deleting' = {cacheName \in DOMAIN cacheStorage : IsOldCache(cacheName)}
    /\ UNCHANGED <<cacheStorage, fetches, engineVars, backendVars, debugMode,
                   animeDefined, clock, awaiting, nCalls, last, report,
                   alignRet, curveRet, ready, renderRet>>

\* line 43: one of the requested deletions completes
DeleteCompletes(cacheName) ==
    /\ swState = "activating"
    /\ cacheName \in deleting
    /\ deleting' = deleting \ {cacheName}
    /\ cacheStorage' = CachesDelete(cacheStorage, cacheName)
    /\ UNCHANGED <<swState, fetches, engineVars, backendVars, debugMode, animeDefined,
                   clock, awaiting, nCalls, last, report, alignRet, curveRet,
                   ready, renderRet>>

\* lines 37-47: Promise.all settles when every deletion has completed, and
\* with it the promise handed to event.waitUntil
ActivateDone ==
    /\ swState = "activating"
    /\ deleting = {}
    /\ swState' = "activated"
    /\ UNCHANGED <<cacheStorage, deleting, fetches, engineVars, backendVars, debugMode,
                   animeDefined, clock, awaiting, nCalls, last, report,
                   alignRet, curveRet, ready, renderRet>>

\* The requests the pages of the origin make.  A URL is its scheme and the
\* rest; the cache keys of the model are the rests of http(s) URLs.  The
\* page itself is asked for as a document, everything else as a script.
RequestPaths == {"/index.html", "/js/new.js"}

Request(method, scheme, path) ==
    [method |-> method, url |-> [scheme |-> scheme, path |-> path],
     destination |-> IF path = "/index.html" THEN "document" ELSE "script"]

Requests ==
    { Request(method, scheme, path) :
        method \in {"GET", "POST"}, scheme \in {"https", "chrome-extension"},
        path \in RequestPaths }

\* What the network may answer with.
NetworkResponses == [status : {200, 404}, type : {"basic", "cors"}]

\* line 54: event.request.method !== 'GET'
MethodIsNotGet(request) == request.method # "GET"

\* line 59: event.request.url.startsWith('http')
StartsWithHttp(url) == url.scheme \in {"http", "https"}

\* lines 64, 95: CacheStorage.match(), which looks in every cache
CachesMatch(storage, path) == \E n \in DOMAIN storage : path \in storage[n]

\* Faulty variant of IsCacheable: the status is not looked at.
IsCacheable_AnyStatus(response) == response.type = "basic"

\* line 76, negated: response.status === 200 && response.type === 'basic'
\* (fetch() never resolves with a null response)
IsCacheable(response) == response.status = 200 /\ response.type = "basic"

\* One fetch event as the worker handles it.  stage: "skipped" (the
\* listener returned without respondWith), "matching" (line 64 pending),
\* "fetching" (line 74 pending), "putting" (lines 81-84 pending), "done".
\* fetched: the worker called fetch() for it.  answer: what respondWith was
\* given: "cache", "network", "offline" (the cached /index.html of line
\* 95), "undefined", or "browser" when respondWith was not called.
FetchRecord(request, stage, fetched, answer, response) ==
    [request |-> request, stage |-> stage, fetched |-> fetched,
     answer |-> answer, response |-> response]

\* lines 52-63: the fetch listener, up to its return
FetchEvent(request) ==
    /\ swState = "activated"
    /\ Len(fetches) < MaxFetches
    /\ fetches' = Append(fetches,
           IF MethodIsNotGet(request) \/ ~StartsWithHttp(request.url)
           THEN FetchRecord(request, "skipped", FALSE, "browser", None)
           ELSE FetchRecord(request, "matching", FALSE, "pending", None))
    /\ UNCHANGED <<swState, cacheStorage, deleting, engineVars, backendVars,
                   debugMode, animeDefined, clock, awaiting, nCalls, last,
                   report, alignRet, curveRet, ready, renderRet>>

\* lines 64-74: caches.match() resolves; a hit is the answer, a miss goes
\* to the network
MatchResolves(i) ==
    /\ fetches[i].stage = "matching"
    /\ fetches' = [fetches EXCEPT ![i] =
           IF CachesMatch(cacheStorage, fetches[i].request.url.path)
           THEN FetchRecord(@.request, "done", @.fetched, "cache", None)
           ELSE FetchRecord(@.request, "fetching", TRUE, "pending", None)]
    /\ UNCHANGED <<swState, cacheStorage, deleting, engineVars, backendVars,
                   debugMode, animeDefined, clock, awaiting, nCalls, last,
                   report, alignRet, curveRet, ready, renderRet>>

\* lines 74-88: fetch() resolves; the response is the answer, and a copy of
\* it is sent to the cache when line 76 lets it pass
NetworkResponds(i, response) ==
    /\ fetches[i].stage = "fetching"
    /\ fetches' = [fetches EXCEPT ![i] =
           FetchRecord(@.request,
                       IF IsCacheable(response) THEN "putting" ELSE "done",
                       @.fetched, "network", Some(response))]
    /\ UNCHANGED <<swState, cacheStorage, deleting, engineVars, backendVars,
                   debugMode, animeDefined, clock, awaiting, nCalls, last,
                   report, alignRet, curveRet, ready, renderRet>>

\* lines 90-98: fetch() rejects; a document is answered with the cached
\* /index.html, if there is one, and anything else with undefined
NetworkFails(i) ==
    /\ fetches[i].stage = "fetching"
    /\ fetches' = [fetches EXCEPT ![i] =
           FetchRecord(@.request, "done", @.fetched,
                       IF /\ @.request.destination = "document"
                          /\ CachesMatch(cacheStorage, "/index.html")
                       THEN "offline" ELSE "undefined",
                       None)]
    /\ UNCHANGED <<swState, cacheStorage, deleting, engineVars, backendVars,
                   debugMode, animeDefined, clock, awaiting, nCalls, last,
                   report, alignRet, curveRet, ready, renderRet>>

\* lines 81-84: caches.open(CACHE_NAME) and cache.put(request, copy)
\* complete, some time after the answer was given
PutCompletes(i) ==
    /\ fetches[i].stage = "putting"
    /\ fetches' = [fetches EXCEPT ![i].stage = "done"]
    /\ cacheStorage' =
           [CachesOpen(cacheStorage, CACHE_NAME) EXCEPT
               ![CACHE_NAME] = @ \cup {fetches[i].request.url.path}]
    /\ UNCHANGED <<swState, deleting, engineVars, backendVars, debugMode,
                   animeDefined, clock, awaiting, nCalls, last, report,
                   alignRet, curveRet, ready, renderRet>>

\* A worker that has just been parsed, in an origin holding any set of
\* caches.
InitCaches ==
    /\ InitEngine
    /\ ready = None
    /\ renderRet = None
    /\ animeDefined = TRUE
    /\ report = None
    /\ alignRet = None
    /\ curveRet = None
    /\ swState = "parsed"
    /\ deleting = {}
    /\ fetches = <<>>
    /\ cacheStorage \in UNION { [names -> CacheContents] :
                                    names \in SUBSET CacheNames }

InstallEvent == \E addAllSucceeds \in BOOLEAN : Install(addAllSucceeds)
DeleteDone == \E cacheName \in deleting : DeleteCompletes(cacheName)

Fetch == \E request \in Requests : FetchEvent(request)
Match == \E i \in 1..Len(fetches) : MatchResolves(i)
Respond == \E i \in 1..Len(fetches), response \in NetworkResponses :
               NetworkResponds(i, response)
Fail == \E i \in 1..Len(fetches) : NetworkFails(i)
Put == \E i \in 1..Len(fetches) : PutCompletes(i)

NextWorker ==
    \/ InstallEvent \/ ActivateBegin \/ DeleteDone \/ ActivateDone
    \/ Fetch \/ Match \/ Respond \/ Fail \/ Put

SpecWorker == InitCaches /\ [][NextWorker]_vars

---------------------------------------------------------------------------
(* Properties *)

\* A session is the pair of playback units one pass through lines 78-79
\* created; its crossfade ends at the stop time given to the outgoing unit.
Sessions == { k \in 1..(Len(sources) \div 2) : TRUE }
CrossfadeEnd(k) == sources[2 * k - 1].stopCalls[1]
Outstanding == { k \in Sessions : clock < CrossfadeEnd(k) }

\* A session is armed or crossfading: accepted, its clearing timer pending.
SessionActive == isMixing /\ Len(timers) > 0

\* The step completes a startAutoMix call (by return or by throw).
CallCompletes ==
    \/ nCalls' = nCalls + 1 /\ awaiting' = awaiting
    \/ nCalls' = nCalls /\ awaiting' # awaiting

Returned(ret) == IsSome(last) /\ Get(last).ret = ret

C2_RejectedCallChangesNothing ==
    [][ (SessionActive /\ nCalls' = nCalls + 1)
            => /\ IsSome(last') /\ Get(last').ret = "false@42"
               /\ UNCHANGED <<engineVars, backendVars, awaiting>> ]_vars

\* A call was rejected at the guard while a session was active.
C2_Witness == Returned("false@42") /\ SessionActive /\ Len(sources) = 2

\* C3: a call that reaches the schedule check with mixPoint - currentPosition
\* <= 0 returns false, allocates no unit, registers no timer, notifies no
\* animation and leaves the flag clear; the call made next (no other call
\* having completed or being suspended) is not turned away by the guard.
C3_PastScheduleRejected ==
    /\ [][ (/\ CallCompletes
            /\ IsSome(Get(last').now)
            /\ Duration(Get(last').cur.buffer) - Get(last').cf - Get(last').pos <= 0)
               => /\ Get(last').ret = "false@74"
                  /\ isMixing' = FALSE
                  /\ UNCHANGED <<sourceNodeA, sourceNodeB, gainNodeA, gainNodeB,
                                 backendVars>> ]_vars
    /\ [][ (Returned("false@74") /\ awaiting = {} /\ nCalls' = nCalls + 1)
               => Get(last').ret # "false@42" ]_vars

\* A call was rejected whose mix point equals the playback position, and the
\* engine is idle.
C3_Witness ==
    /\ Returned("false@74")
    /\ Duration(Get(last).cur.buffer) - Get(last).cf - Get(last).pos = 0
    /\ ~isMixing
    /\ awaiting = {}

\* C4: an accepted call registers a timer for now + (mixStartTime - now +
\* crossfadeDuration); while that timer is pending the flag is cleared by
\* nothing but its firing, at or after its deadline; and the timer does fire,
\* leaving the flag clear.
C4_SessionEnds ==
    /\ [][ (CallCompletes /\ Get(last').ret = "true@122")
               => /\ Len(timers') = Len(timers) + 1
                  /\ timers'[Len(timers')] =
                         clock + (Duration(Get(last').cur.buffer) - Get(last').cf
                                  - Get(last').pos) + Get(last').cf
                  /\ isMixing' ]_vars
    /\ [][ (SessionActive /\ ~isMixing')
               => /\ Len(timers') = Len(timers) - 1
                  /\ \E i \in 1..Len(timers) : timers[i] <= clock ]_vars
    /\ [](SessionActive => <>(~isMixing /\ Len(timers) = 0))

\* An accepted session has ended: its timer fired and the flag is clear.
C4_Witness ==
    /\ Returned("true@122")
    /\ ~isMixing
    /\ Len(timers) = 0
    /\ Cardinality(Sessions) = 1

\* The beat list of an analysis, when it has one.
HasBeats(analysis) == IsSome(analysis) /\ IsSome(Get(analysis).beats)
BeatsOf(analysis) == Get(Get(analysis).beats)

\* C5: a call whose offline resampling failed does not fail: it returns
\* through the schedule (true, or false when the mix point has passed).
C5_ResampleFailureFallsBack ==
    (IsSome(last) /\ Get(last).render = "failed")
        => Get(last).ret \in {"true@122", "false@74"}

\* C6: a call on tracks whose analysis or beat list is absent lets no
\* exception escape, and when it schedules the mix the incoming offset is 0.
\* (Tracks with a file label, so that the debug report is not involved.)
C6_MissingAnalysisDegrades ==
    (/\ IsSome(last)
     /\ IsSome(Get(last).cur.file) /\ IsSome(Get(last).next.file)
     /\ ~HasBeats(Get(last).cur.analysis) \/ ~HasBeats(Get(last).next.analysis))
        => /\ Get(last).ret \in {"true@122", "false@74", "false@42"}
           /\ Get(last).ret = "true@122" => Get(last).offset = Some(0)

AlignDone == IsSome(alignRet) /\ IsSome(Get(alignRet).out)
AlignOut == Get(Get(alignRet).out)

\* C7: the aligner returns 0 without failing whenever an analysis is absent,
\* a beat list is absent or a beat list is empty, for every mix point.
C7_MissingBeatsGiveZero ==
    (/\ AlignDone
     /\ \/ ~HasBeats(Get(alignRet).analysisA)
        \/ ~HasBeats(Get(alignRet).analysisB)
        \/ Len(BeatsOf(Get(alignRet).analysisA)) = 0
        \/ Len(BeatsOf(Get(alignRet).analysisB)) = 0)
        => ~AlignOut.threw /\ AlignOut.value = 0

\* The first beat of a list, in list order, later than 0.1 s; the first beat
\* of the list when there is none.
UsableIndexes(beats) == { i \in 1..Len(beats) : beats[i] > 100 }
FirstUsable(beats) ==
    IF UsableIndexes(beats) # {}
    THEN beats[CHOOSE i \in UsableIndexes(beats) :
                   \A j \in UsableIndexes(beats) : i <= j]
    ELSE beats[1]

BothNonEmpty(a, b) ==
    /\ HasBeats(a) /\ Len(BeatsOf(a)) > 0
    /\ HasBeats(b) /\ Len(BeatsOf(b)) > 0

\* C8: with both beat lists non-empty the aligner returns the first incoming
\* beat strictly greater than 0.1 s in list order, and the first incoming beat
\* when none exceeds 0.1 s; [0.05, 0.6, 1.2] gives 0.6 and [0.05, 0.1] gives 0.05.
C8_FirstIncomingBeat ==
    /\ (AlignDone /\ BothNonEmpty(Get(alignRet).analysisA, Get(alignRet).analysisB))
           => /\ ~AlignOut.threw
              /\ AlignOut.value = FirstUsable(BeatsOf(Get(alignRet).analysisB))
    /\ FirstIncomingBeat(<<50, 600, 1200>>) = 600
    /\ FirstIncomingBeat(<<50, 100>>) = 50

\* The aligner skipped an early beat and returned a later one.
C8_Witness ==
    /\ AlignDone
    /\ BothNonEmpty(Get(alignRet).analysisA, Get(alignRet).analysisB)
    /\ BeatsOf(Get(alignRet).analysisB) = <<100, 150>>
    /\ AlignOut.value = 150

\* x is a beat of the list nearest to the mix point, and the first such beat.
NearestFirst(x, beats, mixPoint) ==
    \E i \in 1..Len(beats) :
        /\ beats[i] = x
        /\ \A j \in 1..Len(beats) : Abs(x - mixPoint) <= Abs(beats[j] - mixPoint)
        /\ \A j \in 1..(i - 1) : Abs(beats[j] - mixPoint) > Abs(x - mixPoint)

SimDone == IsSome(report) /\ IsSome(Get(report).out)
SimOut == Get(Get(report).out)
SimBeatsA == BeatsOf(Get(Get(report).cur).analysis)

C10_StartsAtAnchorBeat ==
    (/\ Returned("true@122")
     /\ BothNonEmpty(Get(last).cur.analysis, Get(last).next.analysis))
        => sources[Len(sources)].startCalls[1].when =
               Get(Get(last).now)
               + (ClosestBeat(BeatsOf(Get(last).cur.analysis),
                              Duration(Get(last).cur.buffer) - Get(last).cf)
                  - Get(last).pos)

CurveDone == IsSome(curveRet) /\ IsSome(Get(curveRet).out)
CurveIn == Get(curveRet)
CurveOut == Get(Get(curveRet).out)

\* C12: a synthesized curve has exactly numPoints samples, its first sample
\* is startValue and its last sample is endValue, whether it rises or falls.
C12_CurveEndpoints ==
    CurveDone =>
        /\ Len(CurveOut) = CurveIn.numPoints
        /\ CurveOut[1] = CurveIn.startValue
        /\ CurveOut[CurveIn.numPoints] = CurveIn.endValue

NonIncreasing(curve) ==
    \A i \in 1..(Len(curve) - 1) : curve[i] >= curve[i + 1]
NonDecreasing(curve) ==
    \A i \in 1..(Len(curve) - 1) : curve[i] <= curve[i + 1]

\* C13: a curve asked to fall (endValue < startValue) never rises from one
\* sample to the next, and a curve asked to rise never falls.
C13_CurveMonotone ==
    CurveDone =>
        /\ (CurveIn.endValue < CurveIn.startValue) => NonIncreasing(CurveOut)
        /\ (CurveIn.endValue > CurveIn.startValue) => NonDecreasing(CurveOut)

\* The resampling window as the claim states it, on tempi in tenths of a BPM.
InWindow(bpmA, bpmB) ==
    /\ 3 * bpmA < 100 * Abs(bpmA - bpmB)
    /\ 100 * Abs(bpmA - bpmB) < 25 * bpmA

BpmOf(track) == Get(track.analysis).bpm
BothAnalysed(c) == IsSome(c.cur.analysis) /\ IsSome(c.next.analysis)

\* C11: resampling is decided exactly when 3% of bpmA < |bpmA - bpmB| < 25%
\* of bpmA, both ends excluded: (120, 123.5) is declined, (120, 128) is
\* resampled, (120, 155) is declined.  A call that passes the guard with
\* both analyses present suspends on the renderer if and only if its tempi
\* are in that window, and a completed call went through the renderer if
\* and only if they are.
C11_ResamplingDecision ==
    /\ ~NeedsResample(1200, 1235)
    /\ NeedsResample(1200, 1280)
    /\ ~NeedsResample(1200, 1550)
    /\ [][(nCalls' = nCalls + 1 /\ ~isMixing) =>
             LET suspended == awaiting' # awaiting
                 c == IF suspended
                      THEN CHOOSE x \in awaiting' \ awaiting : TRUE
                      ELSE Get(last')
             IN  BothAnalysed(c) =>
                     (suspended <=> InWindow(BpmOf(c.cur), BpmOf(c.next)))]_vars
    /\ [](IsSome(last) /\ Get(last).ret \notin {"false@42", "throw@58"} =>
             ((Get(last).render # "none") <=>
                  InWindow(BpmOf(Get(last).cur), BpmOf(Get(last).next))))

\* A call whose tempi differ by exactly 3% was accepted without rendering.
C11_Witness ==
    /\ Returned("true@122")
    /\ Get(last).render = "none"
    /\ BpmOf(Get(last).cur) = 1000
    /\ BpmOf(Get(last).next) = 1030

GainInRange(v) == v >= GAIN_FLOOR /\ v <= GAIN_FULL

\* The values one automation request commits: the samples of a curve, the
\* value of a set, the target of a micro-fade.
Committed(e) ==
    IF IsSome(e.values)
    THEN {Get(e.values)[i] : i \in 1..Len(Get(e.values))}
    ELSE {e.value}

\* C14: every gain value committed to the backend (set values, curve
\* samples, micro-fade targets) lies between 0.0001 and 1, so an exact 0 is
\* never scheduled, and the automation of every incoming gain unit begins
\* by setting it to 0.0001.
C14_GainFloor ==
    \A g \in 1..Len(gains) :
        /\ \A n \in 1..Len(gains[g].automation) :
               \A v \in Committed(gains[g].automation[n]) : GainInRange(v)
        /\ (g % 2 = 0) =>
               /\ gains[g].automation[1].op = "setValueAtTime"
               /\ gains[g].automation[1].value = GAIN_FLOOR

\* The call a step of startAutoMix belongs to: the one it suspended, or the
\* one it completed.
CallOfStep ==
    IF awaiting' # awaiting
    THEN CHOOSE x \in awaiting' \ awaiting : TRUE
    ELSE Get(last')

\* C15: a call that needs resampling suspends on the rendering having
\* allocated no unit, scheduled nothing, registered no timer and notified no
\* animation; and as long as a call stays suspended, a step in which no
\* suspended call resumes allocates, schedules and notifies nothing.
C15_NothingBeforeRender ==
    /\ [][(nCalls' = nCalls + 1 /\ ~isMixing /\ BothAnalysed(CallOfStep)
             /\ InWindow(BpmOf(CallOfStep.cur), BpmOf(CallOfStep.next))) =>
               /\ CallOfStep \in awaiting'
               /\ UNCHANGED <<sourceNodeA, sourceNodeB, gainNodeA, gainNodeB,
                              sources, gains, timers, animations>>]_vars
    /\ [][(awaiting' # {} /\ awaiting \subseteq awaiting') =>
               UNCHANGED <<sourceNodeA, sourceNodeB, gainNodeA, gainNodeB,
                           sources, gains, timers, animations>>]_vars

\* A call that went through the rendering was accepted, and its units were
\* allocated when it resumed.
C15_Witness ==
    /\ Returned("true@122")
    /\ Get(last).render = "ok"
    /\ Len(sources) >= 2
    /\ awaiting = {}

\* A step in which a call of startAutoMix returned true.
AcceptedStep == CallCompletes /\ Get(last').ret = "true@122"

\* C16: the step that accepts a session adds exactly two playback units and
\* two gain units to those the backend holds, leaves every earlier unit as
\* it was, and points the engine's four references at the new units; no
\* step ever changes a unit that exists, and no playback unit has been asked
\* to start more than once.
C16_FreshUnits ==
    /\ [][AcceptedStep =>
             /\ Len(sources') = Len(sources) + 2
             /\ Len(gains') = Len(gains) + 2
             /\ sourceNodeA' = Len(sources) + 1
             /\ sourceNodeB' = Len(sources) + 2
             /\ gainNodeA' = Len(gains) + 1
             /\ gainNodeB' = Len(gains) + 2
             /\ sources'[sourceNodeA'].connectedTo = gainNodeA'
             /\ sources'[sourceNodeB'].connectedTo = gainNodeB']_vars
    /\ [][/\ Len(sources') >= Len(sources)
          /\ Len(gains') >= Len(gains)
          /\ \A i \in 1..Len(sources) : sources'[i] = sources[i]
          /\ \A i \in 1..Len(gains) : gains'[i] = gains[i]]_vars
    /\ [](\A i \in 1..Len(sources) : Len(sources[i].startCalls) <= 1)

\* Two sessions have been accepted, the second on units of its own.
C16_Witness ==
    /\ Returned("true@122")
    /\ Len(sources) = 4
    /\ Len(gains) = 4
    /\ sourceNodeB = 4

\* The start offset the claims give the incoming track: its first beat
\* later than 0.1 s (else its first beat) when both beat lists have
\* entries, 0 otherwise.
AlignedOffset(cur, next) ==
    IF BothNonEmpty(cur.analysis, next.analysis)
    THEN FirstUsable(BeatsOf(next.analysis))
    ELSE 0

\* C17: for an accepted session, with mixPoint = duration of the outgoing
\* track - crossfade duration and mixStartTime = now + (mixPoint -
\* currentPosition), the incoming unit was asked once to start, at exactly
\* mixStartTime and from the aligned offset; the outgoing unit was asked
\* once to stop, at mixStartTime + crossfade duration, later than that start.
C17_ScheduleArithmetic ==
    Returned("true@122") =>
        LET l == Get(last)
            mixPoint == Duration(l.cur.buffer) - l.cf
            mixStartTime == Get(l.now) + (mixPoint - l.pos)
            outgoing == sources[Len(sources) - 1]
            incoming == sources[Len(sources)]
        IN  /\ incoming.startCalls =
                   <<[when |-> mixStartTime,
                      offset |-> AlignedOffset(l.cur, l.next)]>>
            /\ outgoing.stopCalls = <<mixStartTime + l.cf>>
            /\ outgoing.stopCalls[1] > incoming.startCalls[1].when

\* A session accepted part-way through the outgoing track at a clock that
\* is not 0, starting the incoming track at its beat 0.15 s.
C17_Witness ==
    /\ Returned("true@122")
    /\ Get(last).pos = 100
    /\ Get(Get(last).now) > 0
    /\ sources[Len(sources)].startCalls[1].offset = 150

\* C18: the step that allocates a session's playback units makes all of the
\* session's commitments: both units wired through their gain units to the
\* destination, three automation requests on each gain unit, the incoming
\* start, the outgoing stop, the animation request (when the library is
\* present) and the clearing timer; and a step that allocates no unit
\* schedules nothing: it changes no unit, requests no animation and
\* registers no timer.
C18_OneAtomicStep ==
    /\ [][Len(sources') > Len(sources) =>
             LET outgoing == sources'[Len(sources') - 1]
                 incoming == sources'[Len(sources')]
             IN  /\ Len(sources') = Len(sources) + 2
                 /\ Len(gains') = Len(gains) + 2
                 /\ outgoing.connectedTo = Len(gains') - 1
                 /\ incoming.connectedTo = Len(gains')
                 /\ gains'[Len(gains') - 1].connectedTo = "destination"
                 /\ gains'[Len(gains')].connectedTo = "destination"
                 /\ Len(gains'[Len(gains') - 1].automation) = 3
                 /\ Len(gains'[Len(gains')].automation) = 3
                 /\ Len(incoming.startCalls) = 1
                 /\ Len(outgoing.stopCalls) = 1
                 /\ animeDefined => Len(animations') = Len(animations) + 1
                 /\ Len(timers') = Len(timers) + 1]_vars
    /\ [][Len(sources') <= Len(sources) =>
             /\ sources' = sources
             /\ gains' = gains
             /\ animations' = animations
             /\ Len(timers') <= Len(timers)]_vars

\* The step adds one animation request, for the session the step accepted.
NotifiedOnce ==
    /\ Len(animations') = Len(animations) + 1
    /\ \A i \in 1..Len(animations) : animations'[i] = animations[i]
    /\ LET l == Get(last')
           mixStartTime == Get(l.now) + (Duration(l.cur.buffer) - l.cf - l.pos)
       IN  /\ animations'[Len(animations')].startTime = mixStartTime
           /\ animations'[Len(animations')].duration = l.cf

\* A step in which a call of startAutoMix returned false.
RefusedStep == CallCompletes /\ Get(last').ret \in {"false@42", "false@74"}

\* C19 as stated: every step that accepts a session adds exactly one
\* animation request, carrying the session's mixStartTime and crossfade
\* duration; a step in which a call returns false adds none, and neither
\* does a step in which no call ends.
C19_NotifiedOncePerSession ==
    /\ [][AcceptedStep => NotifiedOnce]_vars
    /\ [][RefusedStep => animations' = animations]_vars
    /\ [][~CallCompletes => animations' = animations]_vars

\* C19 amended: when the animation library is loaded, every step that
\* accepts a session adds exactly one animation request, carrying the
\* session's mixStartTime and crossfade duration; when it is not loaded the
\* step adds none; a step in which a call returns false adds none, and
\* neither does a step in which no call ends.
C19_NotifiedWhenPresent ==
    /\ [][AcceptedStep =>
             IF animeDefined THEN NotifiedOnce ELSE animations' = animations]_vars
    /\ [][RefusedStep => animations' = animations]_vars
    /\ [][~CallCompletes => animations' = animations]_vars

\* With the library loaded two sessions were accepted and two requests
\* made; the latest call was turned away and added none.
C19_Witness ==
    /\ animeDefined
    /\ Len(sources) = 4
    /\ Len(animations) = 2
    /\ Returned("false@42")

\* C20: when the simulator has reported on a pair of tracks and startAutoMix
\* has gone past its resampling decision for the same pair and crossfade
\* duration, the report's mixPoint is the outgoing duration less the
\* crossfade duration, its resamplingNeeded says whether the call went to
\* the renderer, its finalOffset is the offset the call computed, and an
\* accepted call asked the incoming unit to start at now + (reported
\* mixPoint - currentPosition) from the reported finalOffset.
C20_DryRunAgrees ==
    (/\ SimDone
     /\ ~SimOut.threw
     /\ ~SimOut.error
     /\ IsSome(last)
     /\ Get(last).ret \notin {"false@42", "throw@58"}) =>
        LET l == Get(last)
        IN  /\ SimOut.mixPoint = Some(Duration(l.cur.buffer) - l.cf)
            /\ SimOut.resamplingNeeded <=> (l.render # "none")
            /\ IsSome(l.offset) => SimOut.finalOffset = l.offset
            /\ (l.ret = "true@122") =>
                   sources[Len(sources)].startCalls =
                       <<[when |-> Get(l.now) + (Get(SimOut.mixPoint) - l.pos),
                          offset |-> Get(SimOut.finalOffset)]>>

\* The simulator reported that resampling is needed, and the call for the
\* same pair was accepted after rendering.
C20_Witness ==
    /\ SimDone
    /\ SimOut.resamplingNeeded
    /\ Returned("true@122")
    /\ Get(last).render = "ok"
    /\ SimOut.finalOffset = Some(150)

\* C21: a step in which simulateMixSession or testAutoMix answers leaves the
\* session flag, the four unit references, the pending timers, the suspended
\* calls and every playback and gain unit of the backend as they were, in
\* whatever state the engine is.
C21_DiagnosticsChangeNothing ==
    [][(report' # report \/ ready' # ready) =>
          UNCHANGED <<isMixing, sourceNodeA, sourceNodeB, gainNodeA, gainNodeB,
                      sources, gains, timers, animations, awaiting>>]_vars

\* Both diagnostics have answered and a session is armed: its flag is set,
\* its units are referenced and its clearing timer is pending.
C21_Witness ==
    /\ SimDone
    /\ IsSome(ready)
    /\ isMixing
    /\ sourceNodeB # 0
    /\ Len(timers) = 1

\* The simulator was handed both tracks, each with its analysis.
SimAnalysed ==
    /\ IsSome(Get(report).cur)
    /\ IsSome(Get(report).next)
    /\ IsSome(Get(Get(report).cur).analysis)
    /\ IsSome(Get(Get(report).next).analysis)

\* C22: simulateMixSession never fails: with a track or an analysis missing
\* it answers the error report, and with both analyses present it answers
\* the structured report (mix point, tempi, final offset), whatever the
\* beat data: present, absent or empty.
C22_SimulatorAlwaysReports ==
    SimDone =>
        /\ ~SimOut.threw
        /\ SimOut.error <=> ~SimAnalysed
        /\ SimAnalysed =>
               /\ IsSome(SimOut.mixPoint)
               /\ IsSome(SimOut.trackA_BPM)
               /\ IsSome(SimOut.trackB_BPM)
               /\ IsSome(SimOut.finalOffset)

RenderDone == IsSome(renderRet) /\ IsSome(Get(renderRet).out)
RenderIn == Get(renderRet)
RenderContext == Get(Get(renderRet).context)
RenderOut == Get(Get(renderRet).out)

\* C23: the resampler plays the source at the rate bpmA / bpmB (1.2 for 120
\* and 100) and answers a buffer with the sample rate and channel count of
\* the source whose frame count is the least integer not below
\* sourceFrames / rate: its duration is sourceDuration / rate, longer by
\* less than one frame.
C23_ResampleLength ==
    RenderDone =>
        /\ RenderContext.playbackRate.num * RenderIn.bpmB
               = RenderContext.playbackRate.den * RenderIn.bpmA
        /\ (RenderIn.bpmA = 1200 /\ RenderIn.bpmB = 1000) =>
               10 * RenderContext.playbackRate.num
                   = 12 * RenderContext.playbackRate.den
        /\ RenderOut.sampleRate = RenderIn.sourceBuffer.sampleRate
        /\ RenderOut.numberOfChannels = RenderIn.sourceBuffer.numberOfChannels
        /\ RenderOut.length = RenderContext.length
        /\ RenderOut.length * RenderIn.bpmA
               >= RenderIn.sourceBuffer.length * RenderIn.bpmB
        /\ (RenderOut.length - 1) * RenderIn.bpmA
               < RenderIn.sourceBuffer.length * RenderIn.bpmB

\* 0.4 s of 8000 Hz stereo resampled from 100 to 120 BPM: 2667 frames.
C23_Witness ==
    /\ RenderDone
    /\ RenderIn.bpmA = 1200
    /\ RenderIn.bpmB = 1000
    /\ RenderIn.sourceBuffer.length = 3200
    /\ RenderOut.length = 2667
    /\ RenderOut.numberOfChannels = 2

\* C24: while a call is suspended on the renderer the flag is set and no
\* second call is suspended with it; every call made meanwhile returns
\* false at the guard and changes nothing: no unit, no timer, no
\* animation, no reference, and the suspended call stays as it is.
C24_SuspendedCallHoldsTheGuard ==
    /\ [](awaiting # {} => (isMixing /\ Cardinality(awaiting) = 1))
    /\ [][(awaiting # {} /\ nCalls' = nCalls + 1) =>
             /\ Get(last').ret = "false@42"
             /\ UNCHANGED <<isMixing, sourceNodeA, sourceNodeB, gainNodeA,
                            gainNodeB, sources, gains, timers, animations,
                            awaiting>>]_vars

\* A call was turned away at the guard while another is suspended on the
\* renderer.
C24_Witness ==
    /\ awaiting # {}
    /\ Returned("false@42")
    /\ nCalls >= 2

\* C25: whenever the session flag is set, a call of startAutoMix is still
\* under way (suspended on the renderer) or exactly one clearing timer is
\* pending; and at no time is more than one clearing timer pending, so the
\* timer that fires is the one the latest accepted session registered.
C25_NoStuckSession ==
    /\ isMixing => (awaiting # {} \/ Len(timers) = 1)
    /\ Len(timers) <= 1

\* The playback clock at the moment the call that ends in this step was
\* made.
CalledAt ==
    IF awaiting' # awaiting
    THEN (CHOOSE c \in awaiting \ awaiting' : TRUE).calledAt
    ELSE clock

\* C26: with the outgoing track playing on at rate 1 from the position the
\* call was given, its position at the start time committed for the
\* incoming unit is the mix point, whether or not the call was suspended
\* on the renderer in between.
C26_MixPointReachedAtStart ==
    [][AcceptedStep =>
          LET l == Get(last')
              mixStartTime == sources'[Len(sources')].startCalls[1].when
              positionAtStart == l.pos + (mixStartTime - CalledAt)
          IN  positionAtStart = Duration(l.cur.buffer) - l.cf]_vars

\* C27: no playback unit has a stop requested of it without a start having
\* been requested of it, so both units of an accepted session are started.
C27_StopOnlyAfterStart ==
    \A i \in 1..Len(sources) :
        Len(sources[i].stopCalls) > 0 => Len(sources[i].startCalls) > 0

\* C28: in an accepted session whose incoming buffer was resampled by the
\* ratio r = bpmA / bpmB, the offset the incoming unit starts from is the
\* chosen incoming beat divided by r, the place of that beat in the buffer
\* that is played, and lies within that buffer.
C28_OffsetInResampledBuffer ==
    (Returned("true@122") /\ Get(last).render = "ok") =>
        LET l == Get(last)
            incoming == sources[Len(sources)]
            r == TempoRatio(BpmOf(l.cur), BpmOf(l.next))
            beat == AlignedOffset(l.cur, l.next)
        IN  /\ incoming.startCalls[1].offset * r.num = beat * r.den
            /\ incoming.startCalls[1].offset <= Duration(incoming.buffer)

\* What an observer of one call sees of it: how it ends (suspended at line
\* 61, returned, or thrown), the session flag it leaves, and how many
\* playback units and timers it added.
CallOutcomes ==
    [ret : {"await@61", "false@42", "throw@58", "throw@61", "throw@157",
            "false@74", "throw@115", "true@122"},
     flag : BOOLEAN, units : {0, 2}, timers : {0, 1}]

EndsWith(o) ==
    /\ o.ret = (IF awaiting' # awaiting /\ nCalls' # nCalls
                 THEN "await@61" ELSE Get(last').ret)
    /\ o.flag = isMixing'
    /\ o.units = Len(sources') - Len(sources)
    /\ o.timers = Len(timers') - Len(timers)

\* The calls that can be made in the present state and end with outcome o.
CallsEndingWith(o) ==
    { x \in (1..Len(Playlist)) \X Positions \X CrossfadeDurations :
        ENABLED (/\ startAutoMix(Playlist[x[1]], Playlist[Following(x[1])],
                                  x[2], x[3])
                 /\ EndsWith(o)) }

\* C29: debug mode affects logging only.  Two engines in the same state but
\* for the debug flag answer every startAutoMix call alike: the same call
\* ends the same way, leaves the same session flag and adds the same
\* playback units and the same timer, tracks without file label included.
C29_DebugChangesLoggingOnly ==
    [][debugMode' # debugMode =>
          \A o \in CallOutcomes : CallsEndingWith(o) = CallsEndingWith(o)']_vars

\* C30: once the activate handler has completed, no cache of a name other
\* than CACHE_NAME is left in storage, whatever caches were there before;
\* and no step of the worker removes the cache named CACHE_NAME or an
\* entry of it.
C30_OnlyCurrentCacheLeft ==
    /\ [](swState = "activated" => DOMAIN cacheStorage = {CACHE_NAME})
    /\ [][(CACHE_NAME \in DOMAIN cacheStorage) =>
             /\ CACHE_NAME \in DOMAIN cacheStorage'
             /\ \A url \in cacheStorage[CACHE_NAME] :
                    url \in cacheStorage'[CACHE_NAME]]_vars

\* The handler has completed in an origin that held content of the current
\* cache, which is all that is left.
C30_Witness ==
    /\ swState = "activated"
    /\ DOMAIN cacheStorage = {CACHE_NAME}
    /\ cacheStorage[CACHE_NAME] = {"/index.html"}

\* The fetch event at place i was for a GET request to an http(s) URL.
GetOverHttp(i) ==
    /\ fetches[i].request.method = "GET"
    /\ fetches[i].request.url.scheme \in {"http", "https"}

\* C31: in the worker's fetch handling, a GET http request that has a
\* cached entry when the cache is asked is answered from the cache and the
\* worker makes no network fetch for it; the cache changes only by gaining
\* the URL of a GET http request whose response came from the network with
\* status 200 and type basic; and a request that is not GET or not http is
\* left to the browser, with no fetch by the worker and no cache write.
C31_FetchHandling ==
    /\ [](\A i \in 1..Len(fetches) :
            /\ ~GetOverHttp(i) =>
                   /\ fetches[i].stage = "skipped"
                   /\ ~fetches[i].fetched
                   /\ fetches[i].answer = "browser"
            /\ fetches[i].answer = "cache" => ~fetches[i].fetched)
    /\ [][\A i \in 1..Len(fetches) :
            (/\ fetches[i].stage = "matching"
             /\ fetches'[i].stage # "matching"
             /\ CachesMatch(cacheStorage, fetches[i].request.url.path))
            => (/\ fetches'[i].answer = "cache"
                /\ fetches'[i].stage = "done"
                /\ ~fetches'[i].fetched)]_vars
    /\ [][(fetches' # fetches /\ cacheStorage' # cacheStorage) =>
            \E i \in 1..Len(fetches) :
                /\ GetOverHttp(i)
                /\ fetches[i].fetched
                /\ fetches[i].answer = "network"
                /\ fetches[i].response = Some([status |-> 200, type |-> "basic"])
                /\ fetches[i].stage = "putting"
                /\ fetches'[i].stage = "done"
                /\ DOMAIN cacheStorage' = DOMAIN cacheStorage
                /\ cacheStorage' =
                       [cacheStorage EXCEPT ![CACHE_NAME] =
                            @ \cup {fetches[i].request.url.path}]]_vars

\* One request was answered from the cache with no fetch, and another,
\* answered by the network with a 200 basic response, is now in the cache.
C31_Witness ==
    /\ Len(fetches) = 2
    /\ fetches[1].answer = "cache"
    /\ ~fetches[1].fetched
    /\ fetches[2].answer = "network"
    /\ fetches[2].stage = "done"
    /\ fetches[2].response = Some([status |-> 200, type |-> "basic"])
    /\ fetches[2].request.url.path = "/js/new.js"
    /\ "/js/new.js" \in cacheStorage[CACHE_NAME]

====
